---------------------------- MODULE Spec2Model ----------------------------
(***************************************************************************)
(* A model of the schema loader of protobuf.js (src/src/root.js):          *)
(* Root.load with its work stack of reserved slots, Root.loadSync, the     *)
(* per-Root file dedup, and the deferred extension fields of a Root.       *)
(*                                                                         *)
(* JavaScript runs one handler at a time to completion.  The handler that  *)
(* is running is the sequence of frames ctl (the call stack); a new event  *)
(* (a call of load, a completion of a deferred fetch) is taken only when   *)
(* ctl is empty.  A fetch that calls its callback before returning nests   *)
(* a doParseWork frame on top of the frame that dispatched it.             *)
(***************************************************************************)
EXTENDS Integers, Sequences, FiniteSets, TLC

\* ------------------------------------------------------------------ bounds
NumFiles == 3       \* resolved file names are 1..NumFiles
MaxRequests == 3    \* file names in a scenario: those handed to load calls
                    \* plus the import statements of the files parsed
MaxLoads == 2       \* load calls made on the one Root
MaxPieces == 2      \* fields written on the wire of one message
IdSpread == 2       \* field ids looked at on each side of 1, 2^28 and 2^29-1

Files == 1..NumFiles
Loads == 1..MaxLoads

\* File names as written: the resolved names themselves, one name that
\* resolvePath resolves to null (the file is skipped) and one that is
\* another spelling of file 1.
NullName == 0
AliasName == -1
Null == -2
Names == Files \cup {NullName, AliasName}

\* ------------------------------------------------------ values of root.js
\* The markers of the work stack and its other entries.
IMPORT_NOOP == [tag |-> "IMPORT_NOOP", filename |-> 0]
IMPORT_IN_FLIGHT == [tag |-> "IMPORT_IN_FLIGHT", filename |-> 0]
FetchError(f) == [tag |-> "fetchError", filename |-> f]
ParseError(f) == [tag |-> "parseError", filename |-> f]
\* { filename, source }: the source is .proto text or a bundled definition
Work(f, source) == [tag |-> source, filename |-> f]
IsWork(x) == x.tag \in {"proto", "bundled"}
IsError(x) == x.tag \in {"fetchError", "parseError"}

\* What the callback was handed: nothing yet, (null, root) or (err, null).
NoResult == [tag |-> "none", filename |-> 0]
Success == [tag |-> "success", filename |-> 0]

\* getBundledFileName(name) || self.resolvePath("", name)
ResolveName(name) ==
    IF name = NullName THEN Null ELSE IF name = AliasName THEN 1 ELSE name

\* The lists processSingleFile can return: the imports first, then the weak
\* imports, each already resolved (null results are dropped by the code).
RECURSIVE SeqsUpTo(_, _)
SeqsUpTo(S, n) ==
    IF n = 0 THEN {<<>>}
    ELSE LET shorter == SeqsUpTo(S, n - 1)
         IN  shorter \cup {Append(s, x) : s \in {t \in shorter : Len(t) = n - 1}, x \in S}

ImportItem(f, w) == [filename |-> f, weak |-> w]
\* File names are interchangeable, so a scenario names its files in the
\* order 1, 2, ...: a list may name the files named before and the next
\* new ones in turn.  known is the number of files named so far.
RECURSIVE KnownAfter(_, _)
KnownAfter(fs, known) ==
    IF fs = <<>> THEN known
    ELSE IF Head(fs) > known + 1 THEN NumFiles + 1
    ELSE KnownAfter(Tail(fs), IF Head(fs) > known THEN Head(fs) ELSE known)

InOrder(fs, known) == KnownAfter(fs, known) <= NumFiles

ImportLists(n, known) ==
    {l \in SeqsUpTo({ImportItem(f, w) : f \in Files, w \in BOOLEAN}, n) :
        /\ \A i \in 1..Len(l) : \A k \in 1..Len(l) : (i < k /\ l[i].weak) => l[k].weak
        /\ InOrder([i \in 1..Len(l) |-> l[i].filename], known)}

ResolvedFiles(names) ==
    LET keep == {i \in 1..Len(names) : ResolveName(names[i]) # Null}
        RECURSIVE Build(_)
        Build(i) == IF i > Len(names) THEN <<>>
                    ELSE IF i \in keep THEN <<ResolveName(names[i])>> \o Build(i + 1)
                    ELSE Build(i + 1)
    IN  Build(1)

InitialLists(n, known) ==
    {names \in SeqsUpTo(Names, n) : InOrder(ResolvedFiles(names), known)}

\* ------------------------------------------------------------------- state
VARIABLES
    files,      \* root.files: the resolved names already requested
    inRoot,     \* the files parsed into the root
    loads,      \* per load call: its closure (stack, callbackCalled)
    pending,    \* the completions still to come (timers, fetches in flight)
    ctl,        \* the running handler's frames, innermost last
    obs,        \* per load call: what an observer of the callback has seen
    counts,     \* per file: fetches dispatched, parses attempted
    budget,     \* file names the scenario may still bring in
    known,      \* the number of files the scenario has named
    sync,       \* the loadSync call: its stack, and how its calls ended
    tree,       \* the reflection objects under the Root, and root.deferred
    dec,        \* a message on the wire and what its decoder made of it
    tags,       \* a field's case label and the tag read from the wire for it
    order       \* the files of a scenario fixed in advance (what each imports,
                \* which fail), and the files a load parsed, in order

vars == <<files, inRoot, loads, pending, ctl, obs, counts, budget, known, sync,
          tree, dec, tags, order>>

NoLoad == [started |-> FALSE, stack |-> <<>>, callbackCalled |-> FALSE]
NoObs ==
    [cbCount |-> 0, cbResult |-> NoResult, cbMissing |-> {}, finishCalls |-> 0,
     required |-> {}, firstFatal |-> NoResult, parsedAfterCb |-> FALSE]
NoSync ==
    [running |-> FALSE, stack |-> <<>>, calls |-> 0, result |-> "none",
     thrownBy |-> [filename |-> 0, weak |-> FALSE], repeated |-> FALSE,
     swallowed |-> FALSE]
NoCount == [fetches |-> 0, parses |-> 0, fetchFailed |-> FALSE, parseFailed |-> FALSE]

\* The whole state as one value, so that the functions of root.js are
\* functions from state to state and compose as the calls do.
World ==
    [files |-> files, inRoot |-> inRoot, loads |-> loads, pending |-> pending,
     ctl |-> ctl, obs |-> obs, counts |-> counts, budget |-> budget,
     known |-> known, sync |-> sync]

BecomesLoad(W) ==
    /\ files' = W.files
    /\ inRoot' = W.inRoot
    /\ loads' = W.loads
    /\ pending' = W.pending
    /\ ctl' = W.ctl
    /\ obs' = W.obs
    /\ counts' = W.counts
    /\ budget' = W.budget
    /\ known' = W.known
    /\ sync' = W.sync
    /\ UNCHANGED <<tree, dec, tags>>

Becomes(W) == BecomesLoad(W) /\ UNCHANGED order

Min(a, b) == IF a < b THEN a ELSE b
Idle == ctl = <<>>
Top(s) == s[Len(s)]
Pop(s) == SubSeq(s, 1, Len(s) - 1)


\* A frame of the running handler: the body of load (its loop over the
\* initial names) or one call of doParseWork (its while loop, and inside it
\* the loop over the imports of the file just parsed).  j counts down.
LoadFrame(l, names) ==
    [op |-> "load", load |-> l, names |-> names, items |-> <<>>, j |-> Len(names)]
ParseFrame(l) ==
    [op |-> "doParseWork", load |-> l, names |-> <<>>, items |-> <<>>, j |-> 0]

SetTop(W, frame) == [W EXCEPT !.ctl[Len(W.ctl)] = frame]
Return(W) == [W EXCEPT !.ctl = Pop(W.ctl)]

\* --------------------------------------------------------- Root.load parts
\* finish(err): the callback is called unless it was called before.
\* (FinishUnguarded is finish without its callbackCalled test.)
FinishUnguarded(W, l, err) ==
    [W EXCEPT !.loads[l].callbackCalled = TRUE,
              !.obs[l].finishCalls = Min(@ + 1, 2),
              !.obs[l].cbCount = Min(@ + 1, 2),
              !.obs[l].cbResult = err,
              !.obs[l].cbMissing = W.obs[l].required \ W.inRoot]

Finish(W, l, err) ==
    IF W.loads[l].callbackCalled
    THEN [W EXCEPT !.obs[l].finishCalls = Min(@ + 1, 2)]
    ELSE [W EXCEPT !.loads[l].callbackCalled = TRUE,
                   !.obs[l].finishCalls = Min(@ + 1, 2),
                   !.obs[l].cbCount = Min(@ + 1, 2),
                   !.obs[l].cbResult = err,
                   !.obs[l].cbMissing = W.obs[l].required \ W.inRoot]

\* doParseWork(), its first line: nothing is parsed after the callback.
DoParseWork(W, l) ==
    IF W.loads[l].callbackCalled THEN W
    ELSE [W EXCEPT !.ctl = Append(@, ParseFrame(l))]

\* The callback fetchOneFile hands to fetchSingleFileAsync: fill the slot,
\* then drain.  err is whether the fetch failed, source is "undefined" for
\* a file that was requested before.
SlotValue(f, weak, err, source) ==
    IF err THEN (IF weak THEN IMPORT_NOOP ELSE FetchError(f))
    ELSE IF source = "undefined" THEN IMPORT_NOOP
    ELSE Work(f, source)

\* (FetchCallbackEager reports a fatal fetch error at once instead of
\* leaving it in its slot.)
FetchCallbackEager(W, l, slot, f, weak, err, source) ==
    LET fatal == err /\ ~weak
        W1 == [W EXCEPT !.loads[l].stack[slot] = SlotValue(f, weak, err, source),
                        !.counts[f].fetchFailed = @ \/ err,
                        !.obs[l].firstFatal =
                            IF fatal /\ @ = NoResult THEN FetchError(f) ELSE @]
    IN  IF fatal THEN Finish(W1, l, FetchError(f)) ELSE DoParseWork(W1, l)

FetchCallback(W, l, slot, f, weak, err, source) ==
    LET fatal == err /\ ~weak
        W1 == [W EXCEPT !.loads[l].stack[slot] = SlotValue(f, weak, err, source),
                        !.counts[f].fetchFailed = @ \/ err,
                        !.obs[l].firstFatal =
                            IF fatal /\ @ = NoResult THEN FetchError(f) ELSE @]
    IN  DoParseWork(W1, l)

\* How a fetch can answer: "later" (a timer, the file system, the network),
\* or, for a fetch function that calls back before it returns, at once;
\* "bundled" is a file of the bundled table, answered by a timer.
AllModes == {"later", "bundled", "nowError", "nowSource"}
FetchModes(W, f) == IF f \in W.files THEN {"later"} ELSE AllModes

\* (FetchSingleFileAsyncNoSkip fetches without looking at root.files.)
FetchSingleFileAsyncNoSkip(W, l, slot, f, weak, mode) ==
    LET ticket(via) == [load |-> l, slot |-> slot, filename |-> f, weak |-> weak, via |-> via]
        W1 == [W EXCEPT !.files = @ \cup {f},
                        !.counts[f].fetches = Min(@ + 1, 2)]
    IN  IF mode = "bundled"
        THEN [W1 EXCEPT !.pending = @ \cup {ticket("bundled")}]
        ELSE IF mode = "later"
        THEN [W1 EXCEPT !.pending = @ \cup {ticket("fetch")}]
        ELSE FetchCallback(W1, l, slot, f, weak, mode = "nowError", "proto")

\* fetchSingleFileAsync(self, filename, cb), cb being the callback of the
\* slot: a file requested before and a bundled file answer by a timer.
FetchSingleFileAsync(W, l, slot, f, weak, mode) ==
    LET ticket(via) == [load |-> l, slot |-> slot, filename |-> f, weak |-> weak, via |-> via]
    IN  IF f \in W.files
        THEN [W EXCEPT !.pending = @ \cup {ticket("skip")}]
        ELSE LET W1 == [W EXCEPT !.files = @ \cup {f},
                                 !.counts[f].fetches = Min(@ + 1, 2)]
             IN  IF mode = "bundled"
                 THEN [W1 EXCEPT !.pending = @ \cup {ticket("bundled")}]
                 ELSE IF mode = "later"
                 THEN [W1 EXCEPT !.pending = @ \cup {ticket("fetch")}]
                 ELSE FetchCallback(W1, l, slot, f, weak, mode = "nowError", "proto")

\* fetchOneFile(resolvedFilename, weak): reserve a slot, then fetch.
\* (FetchOneFileSlotAfterPush takes stack.length for the slot after the push.)
FetchOneFileSlotAfterPush(W, l, f, weak, mode) ==
    LET slot == Len(W.loads[l].stack) + 2
        W1 == [W EXCEPT !.loads[l].stack = Append(@, IMPORT_IN_FLIGHT)]
    IN  FetchSingleFileAsync(W1, l, slot, f, weak, mode)

FetchOneFile(W, l, f, weak, mode) ==
    LET slot == Len(W.loads[l].stack) + 1
        W1 == [W EXCEPT !.loads[l].stack = Append(@, IMPORT_IN_FLIGHT)]
    IN  FetchSingleFileAsync(W1, l, slot, f, weak, mode)

\* processSingleFile(self, filename, source, options).  What the parser
\* makes of a source is the scenario's: it throws, or the file is in the
\* root and its resolved imports are returned.  A bundled definition is a
\* JSON object, added without parsing, and has no imports.
ParseOutcomes(source, n, kn) ==
    IF source # "proto" THEN {[throws |-> FALSE, imports |-> <<>>]}
    ELSE {[throws |-> TRUE, imports |-> <<>>]}
         \cup {[throws |-> FALSE, imports |-> il] : il \in ImportLists(n, kn)}

NoOutcome == [throws |-> FALSE, imports |-> <<>>]

NonWeak(imports) == {imports[i].filename : i \in {k \in 1..Len(imports) : ~imports[k].weak}}

\* A source that is no string is taken for a descriptor and its .options
\* is read, which throws a TypeError when the source is undefined.
ProcessThrowsTypeError(source) == source = "undefined"
ProcessThrows(source, outcome) == ProcessThrowsTypeError(source) \/ outcome.throws

ProcessSingleFile(W, f, source, outcome) ==
    IF ProcessThrowsTypeError(source) THEN W
    ELSE LET W1 == [W EXCEPT !.counts[f].parses = Min(@ + 1, 2)]
         IN  IF outcome.throws
             THEN [W1 EXCEPT !.counts[f].parseFailed = TRUE]
             ELSE [W1 EXCEPT !.inRoot = @ \cup {f},
                             !.budget = @ - Len(outcome.imports),
                             !.known = KnownAfter([i \in 1..Len(outcome.imports) |->
                                                     outcome.imports[i].filename], @)]

\* ------------------------------------------- the reflection tree of a Root
\* The objects of the scenarios: a namespace, a message type, two enums (one
\* with a lower-case name), two extension fields that extend T, and an
\* ordinary field whose name is the
\* fully-qualified name of e1 when e1 is declared at the top level.
\* A name is the sequence of its dotted parts ("" is the root's name, so
\* <<"", "ns", "e1">> is ".ns.e1").
Objects == {"ns", "T", "E", "en", "e1", "e2"}
Enums == {"E", "en"}
ExtFields == {"e1", "e2"}
Types == {"T"}
Containers == {"root", "ns", "T"}
NoObject == "none"

Kind(o) == IF o \in ExtFields THEN "Field"
           ELSE IF o \in Enums THEN "Enum"
           ELSE IF o \in Types THEN "Type"
           ELSE "Namespace"
NameOf(o) == IF o = "root" THEN <<"">> ELSE <<o>>

FieldOf(e) ==
    IF e = "e1"
    THEN [name |-> <<"e1">>, id |-> 100, type |-> "int32", rule |-> "optional",
          options |-> "none", extend |-> <<"T">>]
    ELSE [name |-> <<"e2">>, id |-> 101, type |-> "string", rule |-> "repeated",
          options |-> "deprecated", extend |-> <<"T">>]

\* A field of a type, as Type.fields holds it: an ordinary field or the
\* sister of an extension field (declaringField is then that field).
NoField ==
    [name |-> <<>>, id |-> 0, type |-> "", rule |-> "", options |-> "",
     declaringField |-> NoObject, parent |-> NoObject]
OrdinaryField ==
    [name |-> <<"", "e1">>, id |-> 7, type |-> "bool", rule |-> "optional",
     options |-> "none", declaringField |-> NoObject, parent |-> "T"]

\* /^[A-Z]/ on the names of the scenarios
ExposeRe(o) == o \in {"T", "E"}

\* tree.nested[c] is c.nestedArray, tree.fields[t] is t.fields,
\* tree.extensionField[e] is e.extensionField, tree.exposed[c] are the
\* properties set on c for its exposed children; tree.result is what the
\* latest resolveAll did if nothing was added or removed since, and
\* tree.wasDeferred are the fields pushed on root.deferred since the Root
\* last took them in; tree.unexposed are the objects whose property the
\* latest removal deleted from their parent.
EmptyTree ==
    [nested |-> [c \in Containers |-> <<>>],
     fields |-> [t \in Types |-> {}],
     deferred |-> <<>>,
     extensionField |-> [e \in ExtFields |-> NoField],
     exposed |-> [c \in Containers |-> {}],
     result |-> [tag |-> "none", extensions |-> <<>>],
     wasDeferred |-> {},
     unexposed |-> {}]

Range(q) == {q[i] : i \in 1..Len(q)}
Without(q, x) ==
    LET RECURSIVE Drop(_)
        Drop(r) == IF r = <<>> THEN <<>>
                   ELSE IF Head(r) = x THEN Drop(Tail(r))
                   ELSE <<Head(r)>> \o Drop(Tail(r))
    IN  Drop(q)

\* object.parent
Parent(X, o) ==
    IF \E c \in Containers : o \in Range(X.nested[c])
    THEN CHOOSE c \in Containers : o \in Range(X.nested[c])
    ELSE NoObject

\* object.root instanceof Root
RECURSIVE Attached(_, _)
Attached(X, o) ==
    \/ o = "root"
    \/ Parent(X, o) # NoObject /\ Attached(X, Parent(X, o))

\* object.fullName
RECURSIVE FullName(_, _)
FullName(X, o) ==
    IF o = "root" \/ Parent(X, o) = NoObject THEN NameOf(o)
    ELSE FullName(X, Parent(X, o)) \o NameOf(o)

\* namespace.get(name): a nested object, or for a type one of its fields
GetNested(X, c, name) ==
    IF \E o \in Range(X.nested[c]) : NameOf(o) = name
    THEN CHOOSE o \in Range(X.nested[c]) : NameOf(o) = name
    ELSE NoObject

HasMember(X, c, name) ==
    \/ GetNested(X, c, name) # NoObject
    \/ c \in Types /\ \E fld \in X.fields[c] : fld.name = name

\* namespace.lookup(name): the scopes from the inside to the outside
RECURSIVE Lookup(_, _, _)
Lookup(X, c, name) ==
    IF GetNested(X, c, name) # NoObject THEN GetNested(X, c, name)
    ELSE IF c = "root" \/ Parent(X, c) = NoObject THEN NoObject
    ELSE Lookup(X, Parent(X, c), name)

\* new Field(field.fullName, field.id, field.type, field.rule, undefined,
\* field.options), with declaringField set and added to the extended type
SisterField(X, e, extendedType) ==
    [name |-> FullName(X, e), id |-> FieldOf(e).id, type |-> FieldOf(e).type,
     rule |-> FieldOf(e).rule, options |-> FieldOf(e).options,
     declaringField |-> e, parent |-> extendedType]

\* tryHandleExtension(root, field): Handled says what it returns, and
\* TryHandleExtension is what it does.
Handled(X, e) == Lookup(X, Parent(X, e), FieldOf(e).extend) # NoObject

TryHandleExtension(X, e) ==
    LET extendedType == Lookup(X, Parent(X, e), FieldOf(e).extend)
        sisterField == SisterField(X, e, extendedType)
    IN  IF extendedType = NoObject THEN X
        ELSE IF HasMember(X, extendedType, sisterField.name) THEN X
        ELSE [X EXCEPT !.extensionField[e] = sisterField,
                       !.fields[extendedType] = @ \cup {sisterField}]

\* _handleAdd, the loop over this.deferred when a type is added
RECURSIVE RetryFrom(_, _)
RetryFrom(X, i) ==
    IF i > Len(X.deferred) THEN X
    ELSE IF Handled(X, X.deferred[i])
    THEN RetryFrom([TryHandleExtension(X, X.deferred[i]) EXCEPT
                        !.deferred = SubSeq(@, 1, i - 1) \o SubSeq(@, i + 1, Len(@))], i)
    ELSE RetryFrom(X, i + 1)

\* (RetryNothing leaves the deferred fields alone when a type is added.)
RetryNothing(X) == X

RetryDeferred(X) == RetryFrom(X, 1)

\* parent[name] = value: the property is set, whatever it was
Expose(X, c, o, what) ==
    [X EXCEPT !.exposed[c] =
        {pr \in @ : pr.name # o} \cup {[name |-> o, value |-> what]}]
\* (UnexposeNothing leaves the property where it is.)
UnexposeNothing(X, c, o) == X

\* delete parent[name]
Unexpose(X, c, o) ==
    [X EXCEPT !.exposed[c] = {pr \in @ : pr.name # o},
              !.unexposed = @ \cup {pr.name : pr \in {q \in X.exposed[c] : q.name = o}}]

\* Root.prototype._handleAdd(object)
RECURSIVE HandleAdd(_, _)
RECURSIVE HandleAddEach(_, _, _)
HandleAddEach(X, o, j) ==
    IF j > Len(X.nested[o]) THEN X
    ELSE HandleAddEach(HandleAdd(X, X.nested[o][j]), o, j + 1)

HandleAdd(X, o) ==
    IF Kind(o) = "Field"
    THEN IF X.extensionField[o] = NoField
         THEN IF Handled(X, o) THEN TryHandleExtension(X, o)
              ELSE [X EXCEPT !.deferred = Append(@, o),
                             !.wasDeferred = @ \cup {o}]
         ELSE X
    ELSE IF Kind(o) = "Enum"
    THEN IF ExposeRe(o) THEN Expose(X, Parent(X, o), o, "values") ELSE X
    ELSE LET X1 == IF Kind(o) = "Type" THEN RetryDeferred(X) ELSE X
             X2 == HandleAddEach(X1, o, 1)
         IN  IF ExposeRe(o) THEN Expose(X2, Parent(X2, o), o, "object") ELSE X2

\* Root.prototype._handleRemove(object)
RECURSIVE HandleRemove(_, _)
RECURSIVE HandleRemoveEach(_, _, _)
HandleRemoveEach(X, o, i) ==
    IF i > Len(X.nested[o]) THEN X
    ELSE HandleRemoveEach(HandleRemove(X, X.nested[o][i]), o, i + 1)

HandleRemove(X, o) ==
    IF Kind(o) = "Field"
    THEN IF X.extensionField[o] # NoField
         THEN LET sisterField == X.extensionField[o]
              IN  [X EXCEPT !.fields[sisterField.parent] = @ \ {sisterField},
                            !.extensionField[o] = NoField,
                            !.wasDeferred = @ \ {o}]
         ELSE [X EXCEPT !.deferred = Without(@, o), !.wasDeferred = @ \ {o}]
    ELSE IF Kind(o) = "Enum"
    THEN IF ExposeRe(o) THEN Unexpose(X, Parent(X, o), o) ELSE X
    ELSE LET X1 == HandleRemoveEach(X, o, 1)
         IN  IF ExposeRe(o) THEN Unexpose(X1, Parent(X1, o), o) ELSE X1

\* Root.prototype.resolveAll(): the error names every deferred field's
\* extend and the full name of its parent.
(* ResolveAllUnchecked goes on without looking at root.deferred. *)
ResolveAllUnchecked(X) == [tag |-> "resolved", extensions |-> <<>>]

ResolveAllResult(X) ==
    IF Len(X.deferred) # 0
    THEN [tag |-> "unresolvable extensions",
          extensions |-> [i \in 1..Len(X.deferred) |->
                            [extend |-> FieldOf(X.deferred[i]).extend,
                             in |-> FullName(X, Parent(X, X.deferred[i]))]]]
    ELSE [tag |-> "resolved", extensions |-> <<>>]

\* Where an object may be put: a namespace or the lower-case enum at the
\* top level, a type or the other enum there or in the namespace, an
\* extension field there or in a type.
MayHold(c, o) ==
    /\ c # o
    /\ o \in {"ns", "en"} => c = "root"
    /\ o \in Types \cup {"E"} => c \in {"root", "ns"}

NoResolve == [tag |-> "none", extensions |-> <<>>]

\* No message yet, and no field whose tag is looked at.
NoDecode ==
    [mtype |-> "none", wire |-> <<>>, sent |-> <<>>, limit |-> 0,
     out |-> [pos |-> 0, err |-> "pending", missing |-> <<>>, m |-> <<>>,
              beyond |-> FALSE, groupEnds |-> <<>>]]
NoTags == [fieldId |-> 0, wireType |-> 0, label |-> <<0, 0, 0>>, bytes |-> <<>>,
           t |-> <<0, 0, 0>>, at |-> "start"]

\* ------------------------------------------------------------------ steps
\* No scenario is fixed in advance: what a file imports and whether it
\* fails is settled when it is parsed or fetched.
NoOrder ==
    [fixed |-> FALSE, initial |-> <<>>, imports |-> [f \in Files |-> <<>>],
     fetchFails |-> {}, parseFails |-> {}, parsed |-> <<>>]

InitLoader ==
    /\ files = {}
    /\ inRoot = {}
    /\ loads = [l \in Loads |-> NoLoad]
    /\ pending = {}
    /\ ctl = <<>>
    /\ obs = [l \in Loads |-> NoObs]
    /\ counts = [f \in Files |-> NoCount]
    /\ budget = MaxRequests
    /\ known = 0
    /\ sync = NoSync
    /\ tree = EmptyTree
    /\ dec = NoDecode
    /\ tags = NoTags

Init == InitLoader /\ order = NoOrder

\* root.load(filename, callback): the closure is made and the loop over
\* the names starts.
Load(l, names) ==
    /\ Idle
    /\ ~sync.running
    /\ ~loads[l].started
    /\ \A k \in Loads : k < l => loads[k].started
    /\ LET resolved == {ResolveName(names[i]) : i \in 1..Len(names)} \ {Null}
           W1 == [World EXCEPT !.loads[l].started = TRUE,
                               !.budget = @ - Len(names),
                               !.known = KnownAfter(ResolvedFiles(names), @),
                               !.obs[l].required = resolved,
                               !.ctl = <<LoadFrame(l, names)>>]
       IN  Becomes(W1)

\* One turn of the loop over the initial names (backwards).
LoadFetchInitial(mode) ==
    /\ ~Idle
    /\ Top(ctl).op = "load"
    /\ Top(ctl).j > 0
    /\ LET fr == Top(ctl)
           resolvedFilename == ResolveName(fr.names[fr.j])
           W1 == SetTop(World, [fr EXCEPT !.j = @ - 1])
       IN  IF resolvedFilename = Null
           THEN mode = "later" /\ Becomes(W1)
           ELSE /\ mode \in FetchModes(W1, resolvedFilename)
                /\ Becomes(FetchOneFile(W1, fr.load, resolvedFilename, FALSE, mode))

\* (LoadNoEmptyCheck is the end of load without the special case.)
LoadNoEmptyCheck ==
    /\ ~Idle
    /\ Top(ctl).op = "load"
    /\ Top(ctl).j = 0
    /\ Becomes(Return(World))

\* The end of load: the special case for an empty list.
LoadEmptyCheck ==
    /\ ~Idle
    /\ Top(ctl).op = "load"
    /\ Top(ctl).j = 0
    /\ LET l == Top(ctl).load
           W1 == Return(World)
       IN  Becomes(IF Len(W1.loads[l].stack) = 0 THEN Finish(W1, l, Success) ELSE W1)

\* doParseWork: one turn of the loop over the imports (backwards).
DoParseWorkDispatch(mode) ==
    /\ ~Idle
    /\ Top(ctl).op = "doParseWork"
    /\ Top(ctl).j > 0
    /\ LET fr == Top(ctl)
           importItem == fr.items[fr.j]
           W1 == SetTop(World, [fr EXCEPT !.j = @ - 1])
       IN  /\ mode \in FetchModes(W1, importItem.filename)
           /\ Becomes(FetchOneFile(W1, fr.load, importItem.filename, importItem.weak, mode))

\* doParseWork: one turn of while (stack.length), and the line after it.
DoParseWorkTurn(W, l, outcome) ==
    LET stack == W.loads[l].stack
    IN  IF Len(stack) = 0 THEN Finish(Return(W), l, Success)
        ELSE LET stackTop == Top(stack)
                 W1 == [W EXCEPT !.loads[l].stack = Pop(stack)]
             IN  IF stackTop = IMPORT_IN_FLIGHT THEN Return(W)
                 ELSE IF stackTop = IMPORT_NOOP THEN W1
                 ELSE IF stackTop.tag = "fetchError" THEN Finish(Return(W1), l, stackTop)
                 ELSE LET f == stackTop.filename
                          threw == ProcessThrows(stackTop.tag, outcome)
                          W2 == ProcessSingleFile(W1, f, stackTop.tag, outcome)
                          W3 == [W2 EXCEPT
                                   !.obs[l].parsedAfterCb = @ \/ W.loads[l].callbackCalled,
                                   !.obs[l].firstFatal =
                                       IF threw /\ @ = NoResult THEN ParseError(f) ELSE @,
                                   !.obs[l].required =
                                       IF threw THEN @ ELSE @ \cup NonWeak(outcome.imports)]
                      IN  IF threw
                          THEN Finish(Return(W3), l, ParseError(f))
                          ELSE SetTop(W3, [Top(W3.ctl) EXCEPT !.items = outcome.imports,
                                                              !.j = Len(outcome.imports)])

DoParseWorkLoop ==
    /\ ~Idle
    /\ Top(ctl).op = "doParseWork"
    /\ Top(ctl).j = 0
    /\ LET l == Top(ctl).load
           stack == loads[l].stack
       IN  IF Len(stack) > 0 /\ IsWork(Top(stack))
           THEN \E outcome \in ParseOutcomes(Top(stack).tag, budget, known) :
                    Becomes(DoParseWorkTurn(World, l, outcome))
           ELSE Becomes(DoParseWorkTurn(World, l, NoOutcome))

\* A timer fires or a fetch in flight answers: the slot's callback runs.
FetchCompletes(p, err) ==
    /\ Idle
    /\ ~sync.running
    /\ p \in pending
    /\ err => p.via = "fetch"
    /\ LET W1 == [World EXCEPT !.pending = @ \ {p}]
           source == IF p.via = "skip" THEN "undefined"
                     ELSE IF p.via = "bundled" THEN "bundled" ELSE "proto"
       IN  Becomes(FetchCallback(W1, p.load, p.slot, p.filename, p.weak, err, source))

Next ==
    \/ \E l \in Loads, names \in InitialLists(budget, known) : Load(l, names)
    \/ \E mode \in AllModes : LoadFetchInitial(mode)
    \/ LoadEmptyCheck
    \/ \E mode \in AllModes : DoParseWorkDispatch(mode)
    \/ DoParseWorkLoop
    \/ \E p \in pending, err \in BOOLEAN : FetchCompletes(p, err)

Spec == Init /\ [][Next]_vars

\* The engine runs the handler in progress to its end, and every timer and
\* every fetch in flight answers in the end; nobody has to call load.
RunHandler ==
    \/ \E mode \in AllModes : LoadFetchInitial(mode)
    \/ LoadEmptyCheck
    \/ \E mode \in AllModes : DoParseWorkDispatch(mode)
    \/ DoParseWorkLoop
Completion == \E p \in pending, err \in BOOLEAN : FetchCompletes(p, err)

\* One load call on the Root, run under these two fairness conditions.
LoadOnce == \E names \in InitialLists(budget, known) : Load(1, names)
NextOnce == LoadOnce \/ RunHandler \/ Completion

FairSpec ==
    Init /\ [][NextOnce]_vars /\ WF_vars(RunHandler) /\ WF_vars(Completion)

\* ------------------------------------------- a load of files fixed in advance
\* The scenarios, over the first three files: file 1 imports (not weakly)
\* up to two of the files 2 and 3, file 2 imports file 3 up to twice; a
\* file's fetch fails, or its parse throws, or neither; load is called once
\* with file 1, or with files 1 and 2 in either order.
OrderFiles == {f \in Files : f <= 3}
ImportGraphs ==
    {[f \in Files |-> IF f = 1 THEN a ELSE IF f = 2 THEN b ELSE <<>>] :
        a \in SeqsUpTo(OrderFiles \ {1}, 2), b \in SeqsUpTo(OrderFiles \ {1, 2}, 2)}
InitialOrders == {<<1>>, <<1, 2>>, <<2, 1>>}
Scenarios ==
    {sc \in [fixed : {TRUE}, initial : InitialOrders, imports : ImportGraphs,
             fetchFails : SUBSET OrderFiles, parseFails : SUBSET OrderFiles,
             parsed : {<<>>}] : sc.fetchFails \cap sc.parseFails = {}}

InitOrder == InitLoader /\ order \in Scenarios

\* What processSingleFile does with a file of the scenario.
OutcomeOf(f) ==
    IF f \in order.parseFails THEN [throws |-> TRUE, imports |-> <<>>]
    ELSE [throws |-> FALSE,
          imports |-> [i \in 1..Len(order.imports[f]) |->
                          ImportItem(order.imports[f][i], FALSE)]]

\* A fetch answers later, or before it returns; with an error if the file
\* is one whose fetch fails.
OrderModes == {"later", "nowError", "nowSource"}
ModeFits(mode, f) ==
    \/ mode = "later"
    \/ mode = "nowError" /\ f \in order.fetchFails
    \/ mode = "nowSource" /\ f \notin order.fetchFails

OrderLoad == Load(1, order.initial)

OrderFetchInitial(mode) ==
    /\ ~Idle
    /\ Top(ctl).op = "load"
    /\ Top(ctl).j > 0
    /\ ModeFits(mode, ResolveName(Top(ctl).names[Top(ctl).j]))
    /\ LoadFetchInitial(mode)

OrderDispatch(mode) ==
    /\ ~Idle
    /\ Top(ctl).op = "doParseWork"
    /\ Top(ctl).j > 0
    /\ ModeFits(mode, Top(ctl).items[Top(ctl).j].filename)
    /\ DoParseWorkDispatch(mode)

\* One turn of doParseWork's while loop; order.parsed takes the file handed
\* to processSingleFile.
OrderParse ==
    /\ ~Idle
    /\ Top(ctl).op = "doParseWork"
    /\ Top(ctl).j = 0
    /\ LET l == Top(ctl).load
           stack == loads[l].stack
       IN  IF Len(stack) > 0 /\ IsWork(Top(stack))
           THEN /\ BecomesLoad(DoParseWorkTurn(World, l, OutcomeOf(Top(stack).filename)))
                /\ order' = [order EXCEPT !.parsed = Append(@, Top(stack).filename)]
           ELSE Becomes(DoParseWorkTurn(World, l, NoOutcome))

OrderCompletes(p) ==
    FetchCompletes(p, p.via = "fetch" /\ p.filename \in order.fetchFails)

NextOrder ==
    \/ OrderLoad
    \/ \E mode \in OrderModes : OrderFetchInitial(mode)
    \/ LoadEmptyCheck
    \/ \E mode \in OrderModes : OrderDispatch(mode)
    \/ OrderParse
    \/ \E p \in pending : OrderCompletes(p)

SpecOrder == InitOrder /\ [][NextOrder]_vars

\* ---------------------------------------------------------- Root.loadSync
\* fetchSingleFileSync(self, filename): undefined for a file requested
\* before; otherwise the bundled definition, or what readFileSync gives,
\* which may throw.
FetchSyncResults(W, f) ==
    IF f \in W.files THEN {"undefined"} ELSE {"bundled", "proto", "throws"}

FetchSingleFileSync(W, f) ==
    IF f \in W.files THEN W
    ELSE [W EXCEPT !.files = @ \cup {f}, !.counts[f].fetches = Min(@ + 1, 2)]

\* The stack loadSync starts from: the resolved initial names, pushed
\* backwards, none of them weak.
RECURSIVE Reverse(_)
Reverse(q) == IF q = <<>> THEN <<>> ELSE Append(Reverse(Tail(q)), Head(q))

InitialStack(names) ==
    LET fs == Reverse(ResolvedFiles(names))
    IN  [i \in 1..Len(fs) |-> ImportItem(fs[i], FALSE)]

\* root.loadSync(filename): the stack is filled and the loop starts.
LoadSync(names) ==
    /\ Idle
    /\ ~sync.running
    /\ sync.calls < MaxLoads
    /\ Becomes([World EXCEPT
                   !.sync = [NoSync EXCEPT !.running = TRUE,
                                           !.stack = InitialStack(names),
                                           !.calls = sync.calls + 1],
                   !.budget = @ - Len(names),
                   !.known = KnownAfter(ResolvedFiles(names), @)])

\* One turn of while (stack.length): pop, fetch, process, push the imports
\* backwards.  A throw of the fetch is caught and, for a weak entry, the
\* loop continues; a throw of processSingleFile is not caught.
LoadSyncStep(W, source, outcome) ==
    LET stackTop == Top(W.sync.stack)
        f == stackTop.filename
        W1 == [W EXCEPT !.sync.stack = Pop(@),
                        !.sync.repeated = @ \/ f \in W.files]
        W2 == FetchSingleFileSync(W1, f)
    IN  IF source = "throws"
        THEN LET W3 == [W2 EXCEPT !.counts[f].fetchFailed = TRUE]
             IN  IF stackTop.weak
                 THEN [W3 EXCEPT !.sync.swallowed = TRUE]
                 ELSE [W3 EXCEPT !.sync.running = FALSE, !.sync.result = "fetchError",
                                 !.sync.thrownBy = stackTop]
        ELSE LET W3 == ProcessSingleFile(W2, f, source, outcome)
             IN  IF ProcessThrowsTypeError(source)
                 THEN [W3 EXCEPT !.sync.running = FALSE, !.sync.result = "typeError",
                                 !.sync.thrownBy = stackTop]
                 ELSE IF outcome.throws
                 THEN [W3 EXCEPT !.sync.running = FALSE, !.sync.result = "parseError",
                                 !.sync.thrownBy = stackTop]
                 ELSE [W3 EXCEPT !.sync.stack = @ \o Reverse(outcome.imports)]

LoadSyncTurn ==
    /\ sync.running
    /\ Len(sync.stack) > 0
    /\ \E source \in FetchSyncResults(World, Top(sync.stack).filename) :
         \E outcome \in ParseOutcomes(source, budget, known) :
            /\ (source = "throws" => outcome = NoOutcome)
            /\ Becomes(LoadSyncStep(World, source, outcome))

\* The stack is empty: return self.
LoadSyncReturn ==
    /\ sync.running
    /\ Len(sync.stack) = 0
    /\ Becomes([World EXCEPT !.sync.running = FALSE, !.sync.result = "returned"])

NextSync ==
    \/ \E names \in InitialLists(budget, known) : LoadSync(names)
    \/ LoadSyncTurn
    \/ LoadSyncReturn

SpecSync == Init /\ [][NextSync]_vars

\* ------------------------------------------------------------ the decoder
\* The wire is a sequence of cells: a cell is one varint or one fixed-width
\* number (a tag, a length, a value), and a length counts cells.  r.pos is
\* the number of cells read, r.len the length of the wire.
LEN_TYPE == 2
SGROUP_TYPE == 3
EGROUP_TYPE == 4

\* types.basic[type] is undefined for a message type
Undefined == -1
NoLimit == -1

\* The cell that stands for the text "__proto__" in a string.
ProtoText == 99

\* A number of the program is written here in three digits of base 2^14,
\* the lowest first (the highest digit carries the sign), so that the tags
\* of all field ids up to 2^29-1 can be told apart.
Base == 16384
Num(n) == <<n % Base, (n \div Base) % Base, n \div (Base * Base)>>
Small(x) == x[1] + x[2] * Base + x[3] * Base * Base

\* function tag(fieldId, wireType): the one of line 186 is the function the
\* module has, being declared after the one of line 16.
\* (TagShifted is the declaration of line 16: fieldId << 3 | wireType, whose
\* result is a 32-bit integer in two's complement.)
Times8Plus(x, d) ==
    << (x[1] * 8 + d) % Base,
       (x[2] * 8 + ((x[1] * 8 + d) \div Base)) % Base,
       x[3] * 8 + ((x[2] * 8 + ((x[1] * 8 + d) \div Base)) \div Base) >>
ToInt32(x) == <<x[1], x[2], IF x[3] % 16 >= 8 THEN (x[3] % 16) - 16 ELSE x[3] % 16>>

TagShifted(fieldId, wireType) == ToInt32(Times8Plus(fieldId, wireType))

tag(fieldId, wireType) == Times8Plus(fieldId, wireType)

\* The case label of a field id of the message types below.
Label(id, wireType) == Small(tag(Num(id), wireType))

\* Decoded values.
IntVal(n) == [k |-> "int", n |-> n]
StrVal(cells) == [k |-> "str", s |-> cells]
NullVal == [k |-> "null"]
MsgVal(m) == [k |-> "msg", m |-> m]
ListVal(items) == [k |-> "list", items |-> items]
MapVal(entries, proto) == [k |-> "map", entries |-> entries, proto |-> proto]
ObjectPrototype == [k |-> "Object.prototype"]
EmptyMsg == [n \in {} |-> NullVal]
EmptyEntries == [n \in {} |-> NullVal]

\* types.basic, types.packed, types.defaults
Basic(type) ==
    IF type \in {"int32", "bool"} THEN 0
    ELSE IF type = "fixed32" THEN 5
    ELSE IF type = "string" THEN 2
    ELSE Undefined
Packable(type) == type \in {"int32", "bool", "fixed32"}
Defaults(type) ==
    IF type \in {"int32", "bool", "fixed32"} THEN IntVal(0)
    ELSE IF type = "string" THEN StrVal(<<>>)
    ELSE NullVal

\* The message types: M with a number, a repeated number, a group, a nested
\* message and a repeated enum; Maps with three map fields; the message Sub
\* with a required number and another number; the group G with a required
\* number.
PlainField(name, id, type, rule) ==
    [name |-> name, id |-> id, type |-> type, rule |-> rule, map |-> FALSE,
     keyType |-> "", enum |-> FALSE]
MapField(name, id, keyType, type) ==
    [name |-> name, id |-> id, type |-> type, rule |-> "optional", map |-> TRUE,
     keyType |-> keyType, enum |-> FALSE]
FieldsArray(mtype) ==
    IF mtype = "M"
    THEN << PlainField("a", 1, "int32", "optional"),
            PlainField("v", 2, "int32", "repeated"),
            PlainField("g", 3, "G", "optional"),
            PlainField("sub", 4, "Sub", "optional"),
            [PlainField("c", 5, "Color", "repeated") EXCEPT !.enum = TRUE] >>
    ELSE IF mtype = "Maps"
    THEN << MapField("mp", 1, "string", "Sub"),
            MapField("mi", 2, "int32", "int32"),
            MapField("ms", 3, "int32", "Sub") >>
    ELSE IF mtype = "Sub"
    THEN << PlainField("y", 1, "int32", "required"),
            PlainField("z", 2, "int32", "optional") >>
    ELSE << PlainField("x", 1, "int32", "required") >>
IsGroup(mtype) == mtype = "G"

\* The state of one decoder call: the reader's cursor, the error thrown if
\* any (with the instance a ProtocolError carries), and the message m.
\* beyond and groupEnds observe the run: whether a length read inside a
\* message gave an end offset beyond the end offset of that message, and
\* where the decoders of groups returned.
StartAt(pos, beyond, groupEnds) ==
    [pos |-> pos, err |-> "none", missing |-> <<>>, m |-> EmptyMsg,
     beyond |-> beyond, groupEnds |-> groupEnds]
Throw(S, err) == [S EXCEPT !.err = err]
Has(m, name) == name \in DOMAIN m
Assign(S, name, val) ==
    [S EXCEPT !.m = [n \in DOMAIN S.m \cup {name} |->
                        IF n = name THEN val ELSE S.m[n]]]

\* The reader: uint32() and the reads of the values, skip and skipType.
\* A read at or after the end of the wire throws.
AtEnd(buf, S) == S.pos >= Len(buf)
Cell(buf, S) == buf[S.pos + 1]
Advance(S, n) == [S EXCEPT !.pos = @ + n]

ReadValue(type, buf, S) ==
    IF AtEnd(buf, S) THEN [s |-> Throw(S, "Truncated"), val |-> NullVal]
    ELSE IF type = "string"
    THEN IF S.pos + 1 + Cell(buf, S) > Len(buf)
         THEN [s |-> Throw(Advance(S, 1), "Truncated"), val |-> NullVal]
         ELSE [s |-> Advance(S, 1 + Cell(buf, S)),
               val |-> StrVal(SubSeq(buf, S.pos + 2, S.pos + 1 + Cell(buf, S)))]
    ELSE [s |-> Advance(S, 1), val |-> IntVal(Cell(buf, S))]

Skip(buf, S, n) ==
    IF S.pos + n > Len(buf) THEN Throw(S, "Truncated") ELSE Advance(S, n)

RECURSIVE SkipType(_, _, _)
RECURSIVE SkipGroup(_, _)
SkipGroup(buf, S) ==
    IF S.err # "none" THEN S
    ELSE IF AtEnd(buf, S) THEN Throw(S, "Truncated")
    ELSE IF Cell(buf, S) % 8 = EGROUP_TYPE THEN Advance(S, 1)
    ELSE SkipGroup(buf, SkipType(buf, Cell(buf, S) % 8, Advance(S, 1)))

SkipType(buf, wireType, S) ==
    IF wireType \in {0, 1, 5} THEN Skip(buf, S, 1)
    ELSE IF wireType = LEN_TYPE
    THEN IF AtEnd(buf, S) THEN Throw(S, "Truncated")
         ELSE Skip(buf, Advance(S, 1), Cell(buf, S))
    ELSE IF wireType = SGROUP_TYPE THEN SkipGroup(buf, S)
    ELSE Throw(S, "Malformed")

\* What the generator reads off a field (lines 221-226).
TypeOf(field) == IF field.enum THEN "int32" ELSE field.type
GroupOf(field) == IsGroup(field.type)
BasicWireType(field) == Basic(TypeOf(field))

\* The case labels of a field, in the order they are generated, each with
\* the code it runs.
Case(label, act, field) == [label |-> label, act |-> act, field |-> field]

\* (NoPackedCases generates no case for the packed form.)
NoPackedCases(field) == <<>>

PackedCases(field) ==
    IF Packable(TypeOf(field))
    THEN << Case(Label(field.id, LEN_TYPE), "packed", field) >>
    ELSE <<>>

CasesOf(field) ==
    IF field.map
    THEN << Case(Label(field.id, LEN_TYPE), "map", field) >>
    ELSE IF field.rule = "repeated"
    THEN (IF GroupOf(field)
          THEN << Case(Label(field.id, SGROUP_TYPE), "repeatedGroup", field) >>
          ELSE IF BasicWireType(field) = Undefined
          THEN << Case(Label(field.id, LEN_TYPE), "repeatedMessage", field) >>
          ELSE << Case(Label(field.id, BasicWireType(field)), "repeatedPrimitive", field) >>)
         \o PackedCases(field)
    ELSE IF GroupOf(field)
    THEN << Case(Label(field.id, SGROUP_TYPE), "group", field) >>
    ELSE IF BasicWireType(field) = Undefined
    THEN << Case(Label(field.id, LEN_TYPE), "message", field) >>
    ELSE << Case(Label(field.id, BasicWireType(field)), "primitive", field) >>

RECURSIVE CasesFrom(_, _)
CasesFrom(fields, i) ==
    IF i > Len(fields) THEN <<>> ELSE CasesOf(fields[i]) \o CasesFrom(fields, i + 1)
Cases(mtype) == CasesFrom(FieldsArray(mtype), 1)

\* switch(t): the first case with that label, if any
Matching(cases, t) == {i \in 1..Len(cases) : cases[i].label = t}
FirstMatch(cases, t) ==
    cases[CHOOSE i \in Matching(cases, t) : \A j \in Matching(cases, t) : i <= j]

\* The labels of the two sub-fields of a map entry (lines 245 and 248).
\* (ValueTagOfBasic is line 71: the label made of types.basic[type] alone,
\* which is tag(2, undefined) for a message.)
KeyTag(field) == Label(1, Basic(field.keyType))

ValueTagOfBasic(field) ==
    IF BasicWireType(field) = Undefined THEN 16 ELSE Label(2, BasicWireType(field))

ValueTag(field) ==
    Label(2, IF BasicWireType(field) = Undefined THEN LEN_TYPE ELSE BasicWireType(field))

\* ref[k]=v on a map that was made as {}: the key "__proto__" names no
\* property of its own but the object's prototype, which an object or null
\* replaces and any other value leaves alone.
MapAssign(map, key, val) ==
    IF key = StrVal(<<ProtoText>>)
    THEN IF val.k \in {"msg", "null"}
         THEN MapVal(map.entries, val)
         ELSE map
    ELSE MapVal([x \in DOMAIN map.entries \cup {key} |->
                    IF x = key THEN val ELSE map.entries[x]], map.proto)

\* if(!(ref&&ref.length))ref=[]
ListOrEmpty(S, name) ==
    IF Has(S.m, name) /\ Len(S.m[name].items) > 0 THEN S.m[name].items ELSE <<>>
Push(S, name, val) ==
    Assign(S, name, ListVal(Append(S.m[name].items, val)))
InitList(S, name) == Assign(S, name, ListVal(ListOrEmpty(S, name)))

\* while(r.pos<c2) ref.push(r.type())
RECURSIVE PackedLoop(_, _, _, _)
PackedLoop(field, buf, c2, S) ==
    IF S.err # "none" \/ ~(S.pos < c2) THEN S
    ELSE LET rv == ReadValue(TypeOf(field), buf, S)
         IN  IF rv.s.err # "none" THEN rv.s
             ELSE PackedLoop(field, buf, c2, Push(rv.s, field.name, rv.val))

\* The end-of-group test of a group's decoder (lines 211-214).
\* (NeverEndsGroup is a decoder without it.)
NeverEndsGroup(mtype, t) == FALSE

EndsGroup(mtype, t) == IsGroup(mtype) /\ t % 8 = EGROUP_TYPE

\* default: r.skipType(t&7)
\* (SkipWholeTag hands skipType the tag and not its low three bits.)
SkipWholeTag(buf, t, S) == SkipType(buf, t, S)

SkipUnknown(buf, t, S) == SkipType(buf, t % 8, S)

\* function missing(field)
missing(field) == <<"missing required '", field.name, "'">>

\* (NoCheckRequired returns m whatever it lacks.)
NoCheckRequired(mtype, S) == S

\* The required fields that m has not (lines 357-363), the first of them
\* being the one the error names; the error carries m as its instance.
MissingRequired(mtype, m) ==
    {i \in 1..Len(FieldsArray(mtype)) :
        FieldsArray(mtype)[i].rule = "required" /\ ~Has(m, FieldsArray(mtype)[i].name)}
CheckRequired(mtype, S) ==
    IF S.err # "none" \/ MissingRequired(mtype, S.m) = {} THEN S
    ELSE [S EXCEPT !.err = "ProtocolError",
                   !.missing = missing(FieldsArray(mtype)[
                       CHOOSE i \in MissingRequired(mtype, S.m) :
                          \A j \in MissingRequired(mtype, S.m) : i <= j])]

\* What a call of a nested decoder leaves in the caller: the cursor, and
\* the error if it threw.
After(S, inner) ==
    [S EXCEPT !.pos = inner.pos, !.err = inner.err, !.missing = inner.missing,
              !.m = IF inner.err = "none" THEN S.m ELSE inner.m,
              !.beyond = inner.beyond, !.groupEnds = inner.groupEnds]

\* The generated decoder of a message type: decode(r, l).
RECURSIVE Decode(_, _, _, _, _, _)
RECURSIVE DecodeLoop(_, _, _, _)
RECURSIVE RunCase(_, _, _, _)
RECURSIVE MapLoop(_, _, _, _)

\* types[i].decode(r, r.uint32()): the length is read, then the nested
\* decoder runs from there.
DecodeNested(field, buf, c, S) ==
    IF AtEnd(buf, S) THEN [s |-> Throw(S, "Truncated"), val |-> NullVal]
    ELSE LET inner == Decode(field.type, buf, S.pos + 1, Cell(buf, S),
                             S.beyond \/ (S.pos < c /\ S.pos + 1 + Cell(buf, S) > c),
                             S.groupEnds)
         IN  [s |-> After(S, inner), val |-> MsgVal(inner.m)]

\* types[i].decode(r) for a group
DecodeGroup(field, buf, S) ==
    LET inner == Decode(field.type, buf, S.pos, NoLimit, S.beyond, S.groupEnds)
        ended == IF inner.err = "none"
                 THEN [inner EXCEPT !.groupEnds = Append(@, inner.pos)]
                 ELSE inner
    IN  [s |-> After(S, ended), val |-> MsgVal(inner.m)]

\* The loop over one map entry (lines 242-264); E is the decoder state with
\* the key k and the value v read so far.
MapLoop(field, buf, c2, E) ==
    IF E.s.err # "none" \/ ~(E.s.pos < c2) THEN E
    ELSE IF AtEnd(buf, E.s) THEN [E EXCEPT !.s = Throw(E.s, "Truncated")]
    ELSE LET t2 == Cell(buf, E.s)
             S1 == Advance(E.s, 1)
         IN  IF t2 = KeyTag(field)
             THEN LET rv == ReadValue(field.keyType, buf, S1)
                  IN  MapLoop(field, buf, c2,
                              IF rv.s.err # "none" THEN [E EXCEPT !.s = rv.s]
                              ELSE [E EXCEPT !.s = rv.s, !.k = rv.val])
             ELSE IF t2 = ValueTag(field)
             THEN LET rv == IF BasicWireType(field) = Undefined
                            THEN DecodeNested(field, buf, c2, S1)
                            ELSE ReadValue(TypeOf(field), buf, S1)
                  IN  MapLoop(field, buf, c2,
                              IF rv.s.err # "none" THEN [E EXCEPT !.s = rv.s]
                              ELSE [E EXCEPT !.s = rv.s, !.v = rv.val])
             ELSE MapLoop(field, buf, c2, [E EXCEPT !.s = SkipType(buf, t2 % 8, S1)])

\* The code of one case; c is the end offset of the message being decoded.
RunCase(case, buf, c, S) ==
    LET field == case.field
        name == field.name
    IN  IF case.act = "primitive"
        THEN LET rv == ReadValue(TypeOf(field), buf, S)
             IN  IF rv.s.err # "none" THEN rv.s ELSE Assign(rv.s, name, rv.val)
        ELSE IF case.act = "message"
        THEN LET rv == DecodeNested(field, buf, c, S)
             IN  IF rv.s.err # "none" THEN rv.s ELSE Assign(rv.s, name, rv.val)
        ELSE IF case.act = "group"
        THEN LET rv == DecodeGroup(field, buf, S)
             IN  IF rv.s.err # "none" THEN rv.s ELSE Assign(rv.s, name, rv.val)
        ELSE IF case.act = "repeatedPrimitive"
        THEN LET rv == ReadValue(TypeOf(field), buf, InitList(S, name))
             IN  IF rv.s.err # "none" THEN rv.s ELSE Push(rv.s, name, rv.val)
        ELSE IF case.act = "repeatedMessage"
        THEN LET rv == DecodeNested(field, buf, c, InitList(S, name))
             IN  IF rv.s.err # "none" THEN rv.s ELSE Push(rv.s, name, rv.val)
        ELSE IF case.act = "repeatedGroup"
        THEN LET rv == DecodeGroup(field, buf, InitList(S, name))
             IN  IF rv.s.err # "none" THEN rv.s ELSE Push(rv.s, name, rv.val)
        ELSE IF case.act = "packed"
        THEN LET S1 == InitList(S, name)
             IN  IF AtEnd(buf, S1) THEN Throw(S1, "Truncated")
                 ELSE LET c2 == Cell(buf, S1) + S1.pos + 1
                      IN  PackedLoop(field, buf, c2,
                                     [Advance(S1, 1) EXCEPT
                                         !.beyond = @ \/ (S1.pos < c /\ c2 > c)])
        ELSE \* "map"
             LET S1 == IF Has(S.m, name) THEN S
                       ELSE Assign(S, name, MapVal(EmptyEntries, ObjectPrototype))
             IN  IF AtEnd(buf, S1) THEN Throw(S1, "Truncated")
                 ELSE LET c2 == Cell(buf, S1) + S1.pos + 1
                          E == MapLoop(field, buf, c2,
                                       [s |-> [Advance(S1, 1) EXCEPT
                                                    !.beyond = @ \/ (S1.pos < c /\ c2 > c)],
                                        k |-> Defaults(field.keyType),
                                        v |-> Defaults(TypeOf(field))])
                      IN  IF E.s.err # "none" THEN E.s
                          ELSE Assign(E.s, name, MapAssign(E.s.m[name], E.k, E.v))

\* while(r.pos<c){ t=r.uint32(); ... switch(t){ ... } }
DecodeLoop(mtype, buf, c, S) ==
    IF S.err # "none" \/ ~(S.pos < c) THEN S
    ELSE IF AtEnd(buf, S) THEN Throw(S, "Truncated")
    ELSE LET t == Cell(buf, S)
             S1 == Advance(S, 1)
             cases == Cases(mtype)
         IN  IF EndsGroup(mtype, t) THEN S1
             ELSE IF Matching(cases, t) # {}
             THEN DecodeLoop(mtype, buf, c, RunCase(FirstMatch(cases, t), buf, c, S1))
             ELSE DecodeLoop(mtype, buf, c, SkipUnknown(buf, t, S1))

Decode(mtype, buf, pos, l, beyond, groupEnds) ==
    LET c == IF l = NoLimit THEN Len(buf) ELSE pos + l
    IN  CheckRequired(mtype, DecodeLoop(mtype, buf, c, StartAt(pos, beyond, groupEnds)))

\* -------------------------------------------- adding to a Root, resolving
loadVars == <<files, inRoot, loads, pending, ctl, obs, counts, budget, known, sync,
              dec, tags, order>>

\* parent.add(object): the object is nested in the parent, and when the
\* parent belongs to the Root, root._handleAdd(object) is called.
Add(o, c) ==
    /\ Parent(tree, o) = NoObject
    /\ MayHold(c, o)
    /\ LET X1 == [tree EXCEPT !.nested[c] = Append(@, o), !.result = NoResolve,
                              !.unexposed = {}]
       IN  tree' = IF Attached(X1, c) THEN HandleAdd(X1, o) ELSE X1
    /\ UNCHANGED loadVars

\* type.add(field) for the ordinary field
AddOrdinaryField ==
    /\ ~HasMember(tree, "T", OrdinaryField.name)
    /\ tree' = [tree EXCEPT !.fields["T"] = @ \cup {OrdinaryField},
                            !.result = NoResolve, !.unexposed = {}]
    /\ UNCHANGED loadVars

\* parent.remove(object): root._handleRemove(object) is called when the
\* parent belongs to the Root, and the object leaves the parent.
Remove(o) ==
    /\ Parent(tree, o) # NoObject
    /\ LET c == Parent(tree, o)
           X0 == [tree EXCEPT !.unexposed = {}]
           X1 == IF Attached(tree, c) THEN HandleRemove(X0, o) ELSE X0
       IN  tree' = [X1 EXCEPT !.nested[c] = Without(@, o), !.result = NoResolve]
    /\ UNCHANGED loadVars

\* root.resolveAll()
ResolveAll ==
    /\ tree' = [tree EXCEPT !.result = ResolveAllResult(tree)]
    /\ UNCHANGED loadVars

NextTree ==
    \/ \E o \in Objects, c \in Containers : Add(o, c)
    \/ AddOrdinaryField
    \/ \E o \in Objects : Remove(o)
    \/ ResolveAll

SpecTree == Init /\ [][NextTree]_vars

\* ------------------------------------------- messages on the wire, decoded
\* What may be written on the wire, field by field.  A piece has the cells
\* written, the cells of the same field without the unknown fields in it
\* (plain), whether it is well-formed (good), and what was encoded: the
\* field, the values of a repeated field, or the key and value of a map
\* entry.
Piece(name, cells, field, vals) ==
    [name |-> name, cells |-> cells, plain |-> cells, good |-> TRUE,
     field |-> field, vals |-> vals, key |-> NullVal, val |-> NullVal]
Entry(name, cells, field, key, val) ==
    [Piece(name, cells, field, <<>>) EXCEPT !.key = key, !.val = val]
Unknown(name, cells) == [Piece(name, cells, "", <<>>) EXCEPT !.plain = <<>>]
SubOf(y) == MsgVal([n \in {"y"} |-> IntVal(y)])
GroupOfX(x) == MsgVal([n \in {"x"} |-> IntVal(x)])

PiecesOfM ==
    << Piece("a5", <<8, 5>>, "a", <<5>>),
       Piece("v1", <<16, 1>>, "v", <<1>>),
       Piece("v2", <<16, 2>>, "v", <<2>>),
       Piece("vp12", <<18, 2, 1, 2>>, "v", <<1, 2>>),
       Piece("vp0", <<18, 0>>, "v", <<>>),
       [Piece("vpOver", <<18, 2, 1>>, "v", <<1>>) EXCEPT !.good = FALSE],
       Piece("c7", <<40, 7>>, "c", <<7>>),
       Piece("cp79", <<42, 2, 7, 9>>, "c", <<7, 9>>),
       Piece("g3", <<27, 8, 3, 28>>, "g", <<3>>),
       Piece("g4", <<27, 8, 4, 28>>, "g", <<4>>),
       [Piece("gLate", <<27, 72, 1, 8, 3, 28>>, "g", <<3>>) EXCEPT
           !.plain = <<27, 8, 3, 28>>],
       [Piece("gOpen", <<27, 8, 3>>, "g", <<3>>) EXCEPT !.good = FALSE],
       [Piece("gNoX", <<27, 28>>, "g", <<>>) EXCEPT !.good = FALSE],
       Piece("sub7", <<34, 2, 8, 7>>, "sub", <<7>>),
       [Piece("subUnk", <<34, 4, 8, 7, 72, 1>>, "sub", <<7>>) EXCEPT
           !.plain = <<34, 2, 8, 7>>],
       [Piece("subOver", <<34, 3, 8, 7>>, "sub", <<7>>) EXCEPT !.good = FALSE],
       [Piece("subNoY", <<34, 2, 16, 4>>, "sub", <<>>) EXCEPT !.good = FALSE],
       Unknown("uVar", <<72, 9>>),
       Unknown("uLen", <<74, 1, 8>>),
       Unknown("uGrp", <<75, 8, 1, 76>>),
       Unknown("uFix", <<77, 4>>),
       Unknown("uV5", <<21, 4>>) >>

PiecesOfMaps ==
    << Entry("mpKV", <<10, 7, 10, 1, 5, 18, 2, 8, 7>>, "mp", StrVal(<<5>>), SubOf(7)),
       Entry("mpNoV", <<10, 3, 10, 1, 5>>, "mp", StrVal(<<5>>), NullVal),
       Entry("mpNoK", <<10, 4, 18, 2, 8, 7>>, "mp", StrVal(<<>>), SubOf(7)),
       Entry("mpProto", <<10, 7, 10, 1, ProtoText, 18, 2, 8, 7>>, "mp",
             StrVal(<<ProtoText>>), SubOf(7)),
       Entry("miKV", <<18, 4, 8, 1, 16, 9>>, "mi", IntVal(1), IntVal(9)),
       Entry("miK2", <<18, 6, 8, 1, 16, 9, 8, 2>>, "mi", IntVal(2), IntVal(9)),
       Entry("miV4", <<18, 4, 8, 1, 16, 4>>, "mi", IntVal(1), IntVal(4)),
       Entry("miNoK", <<18, 2, 16, 9>>, "mi", IntVal(0), IntVal(9)),
       Entry("miNoV", <<18, 2, 8, 1>>, "mi", IntVal(1), IntVal(0)),
       Entry("miEmpty", <<18, 0>>, "mi", IntVal(0), IntVal(0)),
       [Entry("miUnk", <<18, 6, 24, 7, 8, 1, 16, 9>>, "mi", IntVal(1), IntVal(9)) EXCEPT
           !.plain = <<18, 4, 8, 1, 16, 9>>],
       [Entry("miOver", <<18, 5, 8, 1, 16, 9>>, "mi", IntVal(1), IntVal(9)) EXCEPT
           !.good = FALSE],
       Entry("msKV", <<26, 6, 8, 1, 18, 2, 8, 7>>, "ms", IntVal(1), SubOf(7)),
       Entry("msNoV", <<26, 2, 8, 1>>, "ms", IntVal(1), NullVal),
       [Entry("msV0", <<26, 4, 8, 1, 16, 9>>, "ms", IntVal(1), NullVal) EXCEPT
           !.plain = <<26, 2, 8, 1>>],
       Unknown("uVar", <<72, 9>>) >>

PiecesOfSub ==
    << Piece("y7", <<8, 7>>, "y", <<7>>),
       Piece("z4", <<16, 4>>, "z", <<4>>),
       Unknown("uVar", <<72, 9>>),
       Unknown("uLen", <<74, 1, 8>>) >>

Pieces(mtype) ==
    IF mtype = "M" THEN PiecesOfM
    ELSE IF mtype = "Maps" THEN PiecesOfMaps
    ELSE PiecesOfSub

\* A message type is chosen, fields are written on the wire, and the
\* decoder of the type is called on the wire, without a length or with one.
treeVars == <<files, inRoot, loads, pending, ctl, obs, counts, budget, known,
              sync, tree, order>>

NewMessage(mtype) ==
    /\ dec.mtype = "none"
    /\ dec' = [dec EXCEPT !.mtype = mtype]
    /\ UNCHANGED <<treeVars, tags>>

Write(i) ==
    /\ dec.mtype # "none"
    /\ dec.out.err = "pending"
    /\ Len(dec.sent) < MaxPieces
    /\ i \in 1..Len(Pieces(dec.mtype))
    /\ dec' = [dec EXCEPT !.wire = @ \o Pieces(dec.mtype)[i].cells,
                          !.sent = Append(@, Pieces(dec.mtype)[i])]
    /\ UNCHANGED <<treeVars, tags>>

DecodeCall(l) ==
    /\ dec.mtype # "none"
    /\ dec.out.err = "pending"
    /\ l = NoLimit \/ l \in 0..Len(dec.wire)
    /\ dec' = [dec EXCEPT !.limit = l,
                          !.out = Decode(dec.mtype, dec.wire, 0, l, FALSE, <<>>)]
    /\ UNCHANGED <<treeVars, tags>>

NextDecode ==
    \/ \E mtype \in {"M", "Maps", "Sub"} : NewMessage(mtype)
    \/ \E i \in 1..Len(PiecesOfM) : Write(i)
    \/ \E l \in {NoLimit} \cup (0..(MaxPieces * 9)) : DecodeCall(l)

SpecDecode == Init /\ [][NextDecode]_vars

\* ------------------------------------------------ a tag, built and read
\* The field ids looked at: the smallest, those around 2^28 (where
\* fieldId << 3 reaches the sign bit) and the largest, 2^29-1.
TagIds ==
    (1..IdSpread) \cup ((268435456 - IdSpread)..(268435456 + IdSpread))
                  \cup ((536870911 - IdSpread)..536870911)
WireTypes == 0..5

\* The bytes of a field's tag on the wire: the varint of the number whose
\* low three bits are the wire type and whose other bits are the field id,
\* seven bits to a byte, lowest first, every byte but the last with its
\* high bit set.
TagGroups(fieldId, wireType) ==
    << (fieldId % 16) * 8 + wireType, (fieldId \div 16) % 128,
       (fieldId \div 2048) % 128, (fieldId \div 262144) % 128,
       fieldId \div 33554432 >>
RECURSIVE Varint(_)
Varint(groups) ==
    IF Len(groups) = 1 \/ \A i \in 2..Len(groups) : groups[i] = 0
    THEN <<groups[1]>>
    ELSE <<groups[1] + 128>> \o Varint(Tail(groups))

\* r.uint32(): the number of at most five bytes, an unsigned 32-bit value
GroupAt(bytes, i) == IF i <= Len(bytes) THEN bytes[i] % 128 ELSE 0
Uint32(bytes) ==
    << GroupAt(bytes, 1) + 128 * GroupAt(bytes, 2),
       GroupAt(bytes, 3) + 128 * GroupAt(bytes, 4),
       GroupAt(bytes, 5) % 16 >>

decVars == <<files, inRoot, loads, pending, ctl, obs, counts, budget, known,
             sync, tree, dec, order>>

\* A field is taken, the generator builds the label of its case, the tag is
\* written on the wire and the decoder reads it: t=r.uint32(), switch(t).
PickField(fieldId, wireType) ==
    /\ tags.at = "start"
    /\ tags' = [tags EXCEPT !.fieldId = fieldId, !.wireType = wireType, !.at = "field"]
    /\ UNCHANGED decVars

BuildCase ==
    /\ tags.at = "field"
    /\ tags' = [tags EXCEPT !.label = tag(Num(tags.fieldId), tags.wireType),
                            !.at = "case"]
    /\ UNCHANGED decVars

WriteTag ==
    /\ tags.at = "case"
    /\ tags' = [tags EXCEPT !.bytes = Varint(TagGroups(tags.fieldId, tags.wireType)),
                            !.at = "wire"]
    /\ UNCHANGED decVars

ReadTag ==
    /\ tags.at = "wire"
    /\ tags' = [tags EXCEPT !.t = Uint32(tags.bytes), !.at = "read"]
    /\ UNCHANGED decVars

NextTag ==
    \/ \E fieldId \in TagIds, wireType \in WireTypes : PickField(fieldId, wireType)
    \/ BuildCase
    \/ WriteTag
    \/ ReadTag

SpecTag == Init /\ [][NextTag]_vars

\* ------------------------------------------------------------------ claims
OnlyFirstLoad == \A k \in Loads : k # 1 => ~loads[k].started
Failed(f) == counts[f].fetchFailed \/ counts[f].parseFailed

\* C1: under every order of fetch completions the user callback of a load
\* is invoked at most once.
C1_CallbackAtMostOnce == \A l \in Loads : obs[l].cbCount <= 1

\* finish was called a second time for a load and the callback was not.
C1_Witness ==
    \E l \in Loads : obs[l].finishCalls = 2 /\ obs[l].cbCount = 1

\* C2: when the callback of a load is invoked with (null, root), every
\* initial file and every import required (non-weak) by a file parsed so far
\* has been parsed into the root.  Stated for a Root with one load call.
C2_SuccessMeansAllParsed ==
    (OnlyFirstLoad /\ obs[1].cbResult = Success) => obs[1].cbMissing = {}

\* C3: a load none of whose non-weak files failed to fetch or to parse
\* hands (null, root) to its callback, whatever its weak imports did.
C3_WeakFailuresAreSwallowed ==
    \A l \in Loads :
        (obs[l].cbCount >= 1 /\ \A f \in obs[l].required : ~Failed(f))
            => obs[l].cbResult = Success

\* C4: each resolved file name is fetched at most once and parsed at most
\* once for one Root, over all its load calls and import dispatches, and no
\* callback is invoked a second time.
C4_FetchedAndParsedOnce ==
    /\ \A f \in Files : counts[f].fetches <= 1 /\ counts[f].parses <= 1
    /\ \A l \in Loads : obs[l].cbCount <= 1

\* A repeat request has just been answered with the no-op marker (no fetch
\* has failed, so the marker is not a weak failure) for a file parsed once.
C4_Witness ==
    /\ \A f \in Files : ~counts[f].fetchFailed
    /\ \E f \in Files : counts[f].parses = 1
    /\ \E l \in Loads :
          Len(loads[l].stack) > 0 /\ Top(loads[l].stack) = IMPORT_NOOP

\* C5: a loadSync call that reached a file name processed before, and in
\* which no file failed to fetch or to parse, returns the root.
C5_RepeatIsNoOp ==
    (~sync.running /\ sync.calls >= 1 /\ sync.repeated /\ \A f \in Files : ~Failed(f))
        => sync.result = "returned"

\* C6: a load that was called has its callback invoked in the end.
C6_CallbackEventually == loads[1].started ~> (obs[1].cbCount >= 1)

\* A load whose list is empty, or holds only names that resolve to null,
\* has called back with success.
C6_Witness ==
    loads[1].started /\ obs[1].required = {} /\ obs[1].cbResult = Success

C8_WeakFailuresNeverPropagate ==
    sync.result \in {"fetchError", "parseError"} => ~sync.thrownBy.weak

TargetArrives(e, t) ==
    /\ e \in Range(tree.deferred)
    /\ ~Attached(tree, t)
    /\ Attached(tree', t)
    /\ Lookup(tree', Parent(tree', e), FieldOf(e).extend) = t

\* t has the sister of e, named by e's full name, with e's id, type, rule
\* and options, and the two point at each other; e is not deferred.
Linked(X, e, t) ==
    /\ e \notin Range(X.deferred)
    /\ X.extensionField[e] \in X.fields[t]
    /\ X.extensionField[e].name = FullName(X, e)
    /\ X.extensionField[e].id = FieldOf(e).id
    /\ X.extensionField[e].type = FieldOf(e).type
    /\ X.extensionField[e].rule = FieldOf(e).rule
    /\ X.extensionField[e].options = FieldOf(e).options
    /\ X.extensionField[e].declaringField = e
    /\ \A i \in 1..Len(ResolveAllResult(X).extensions) :
          ResolveAllResult(X).extensions[i].extend # FieldOf(e).extend
             \/ ResolveAllResult(X).extensions[i].in # FullName(X, Parent(X, e))

\* C9 (as stated): when the type that a deferred extension field extends is
\* added to the Root, the field leaves root.deferred, the type gets a
\* sister field named by the field's full name with its id, type, rule and
\* options, the two are cross-linked, and resolveAll no longer names the
\* field as unresolvable.
C9_DeferredFieldIsLinked ==
    [][\A e \in ExtFields, t \in Types :
          TargetArrives(e, t) => Linked(tree', e, t)]_vars

\* C9 (amended): the same, unless the arriving type already has a member
\* with the field's full name; then the field leaves root.deferred all the
\* same, but no sister field is made and the field stays without one.
C9_DeferredFieldIsLinkedUnlessNameTaken ==
    [][\A e \in ExtFields, t \in Types :
          TargetArrives(e, t) =>
             IF HasMember(tree, t, FullName(tree, e))
             THEN /\ e \notin Range(tree'.deferred)
                  /\ tree'.extensionField[e] = NoField
                  /\ \A fld \in tree'.fields[t] : fld.declaringField # e
             ELSE Linked(tree', e, t)]_vars

\* A field that was deferred now has its sister in T, and resolveAll has
\* succeeded.
C9_Witness ==
    /\ "e1" \in tree.wasDeferred
    /\ Linked(tree, "e1", "T")
    /\ tree.result.tag = "resolved"

\* C10: resolveAll fails with "unresolvable extensions" exactly when
\* root.deferred is not empty, the error names, for every deferred field and
\* nothing else, its extend and the full name of its parent, and after a
\* resolveAll that succeeded root.deferred is empty.
C10_ResolveAllFailsIffDeferred ==
    tree.result.tag # "none" =>
       /\ tree.result.tag = "unresolvable extensions" <=> tree.deferred # <<>>
       /\ tree.result.tag = "resolved" => tree.deferred = <<>>
       /\ Len(tree.result.extensions) = Len(tree.deferred)
       /\ \A i \in 1..Len(tree.deferred) :
             LET e == tree.deferred[i]
                 name == FullName(tree, e)
             IN  /\ tree.result.extensions[i].extend = <<"T">>
                 /\ tree.result.extensions[i].in \o <<e>> = name

\* resolveAll has failed with two fields deferred, one of them declared in
\* the namespace.
C10_Witness ==
    /\ tree.result.tag = "unresolvable extensions"
    /\ Len(tree.deferred) = 2
    /\ \E i \in 1..2 : tree.result.extensions[i].in = <<"", "ns">>

\* What the children of c are to be seen as on c: the enum's values for an
\* enum, the object itself for a type or a namespace, and only for names
\* that begin with an upper-case letter.
ExpectedExposure(c) ==
    {[name |-> o, value |-> IF o \in Enums THEN "values" ELSE "object"] :
        o \in {x \in Range(tree.nested[c]) :
                  x \notin ExtFields /\ x \in {"T", "E"}}}

\* C11: a namespace that belongs to the Root has a property for exactly
\* those of its present children (types, enums, namespaces) whose name
\* begins with an upper-case letter, the values of an enum and the object
\* otherwise; what was removed from the Root, and what is nested in it, has
\* no property left on its parent.
C11_ExposureFollowsChildren ==
    \A c \in Containers :
       tree.exposed[c] = IF Attached(tree, c) THEN ExpectedExposure(c) ELSE {}

\* The namespace was removed from the Root with the type and the enum in
\* it, whose properties were deleted, and the Root exposes nothing, the
\* lower-case enum being its only child.
C11_Witness ==
    /\ tree.unexposed = {"T", "E"}
    /\ Parent(tree, "ns") = NoObject
    /\ Parent(tree, "T") = "ns"
    /\ Parent(tree, "E") = "ns"
    /\ Parent(tree, "en") = "root"
    /\ tree.exposed["root"] = {}

\* The decoder was called; on a wire of well-formed fields; over the whole
\* wire.
Decoded == dec.out.err # "pending"
AllGood == \A i \in 1..Len(dec.sent) : dec.sent[i].good
Whole == dec.limit = NoLimit \/ dec.limit = Len(dec.wire)

\* The numbers of a repeated field of m, and the numbers that were encoded
\* for the field in the pieces, in the order of the wire.
ListOf(m, name) ==
    IF Has(m, name)
    THEN [i \in 1..Len(m[name].items) |-> m[name].items[i].n]
    ELSE <<>>
RECURSIVE EncodedFrom(_, _, _)
EncodedFrom(sent, name, i) ==
    IF i > Len(sent) THEN <<>>
    ELSE (IF sent[i].field = name THEN sent[i].vals ELSE <<>>)
         \o EncodedFrom(sent, name, i + 1)
Encoded(name) == EncodedFrom(dec.sent, name, 1)

\* C12: a repeated number or enum is read from the unpacked form at
\* tag(id, basicWireType) and from the packed form at tag(id, 2), and
\* whatever the mix of the two forms in a message the list decoded holds the
\* encoded values in the order of the wire.
C12_PackedAndUnpackedAlike ==
    (Decoded /\ dec.mtype = "M" /\ AllGood /\ Whole) =>
        /\ dec.out.err = "none"
        /\ ListOf(dec.out.m, "v") = Encoded("v")
        /\ ListOf(dec.out.m, "c") = Encoded("c")

\* A packed run of two values followed by a third value unpacked.
C12_Witness ==
    /\ Decoded /\ Whole
    /\ Len(dec.sent) = 2
    /\ dec.sent[1].name = "vp12"
    /\ dec.sent[2].name = "v2"
    /\ ListOf(dec.out.m, "v") = <<1, 2, 2>>

\* The wire of the same fields with the unknown fields left out.
RECURSIVE PlainFrom(_, _)
PlainFrom(sent, i) ==
    IF i > Len(sent) THEN <<>> ELSE sent[i].plain \o PlainFrom(sent, i + 1)
PlainWire == PlainFrom(dec.sent, 1)
DecodedPlain == Decode(dec.mtype, PlainWire, 0, NoLimit, FALSE, <<>>)

\* C13: well-formed fields whose tags the message type has no case for, at
\* the top level, in a nested message, in a group or in a map entry, are
\* skipped: the cursor ends after them, and the outcome (the message, or
\* the error for a missing required field) is the one of the wire without
\* them.
C13_UnknownFieldsChangeNothing ==
    (Decoded /\ AllGood /\ Whole) =>
        /\ dec.out.pos = Len(dec.wire)
        /\ dec.out.err = DecodedPlain.err
        /\ dec.out.missing = DecodedPlain.missing
        /\ dec.out.m = DecodedPlain.m

\* An unknown group, then a nested message with an unknown field in it.
C13_Witness ==
    /\ Decoded /\ Whole
    /\ Len(dec.sent) = 2
    /\ dec.sent[1].name = "uGrp"
    /\ dec.sent[2].name = "subUnk"
    /\ dec.out.err = "none"
    /\ dec.out.m = [n \in {"sub"} |-> SubOf(7)]

\* The last number encoded for a field, as the message has it if any was.
HasLast(m, name) ==
    IF Encoded(name) = <<>> THEN ~Has(m, name)
    ELSE Has(m, name) /\ m[name] = IntVal(Encoded(name)[Len(Encoded(name))])

\* C14: a decoder returns a message only if the message has every required
\* field of its type (the nested message and the group likewise); when the
\* loop has ended and a required field was not on the wire, the call fails
\* with a ProtocolError "missing required '<name>'" for a required field
\* the message lacks, and the error carries what was decoded.
C14_RequiredFieldsChecked ==
    Decoded =>
        /\ (dec.out.err = "none" /\ dec.mtype = "Sub") => Has(dec.out.m, "y")
        /\ (dec.out.err = "none" /\ dec.mtype = "M" /\ Has(dec.out.m, "sub"))
              => Has(dec.out.m["sub"].m, "y")
        /\ (dec.out.err = "none" /\ dec.mtype = "M" /\ Has(dec.out.m, "g"))
              => Has(dec.out.m["g"].m, "x")
        /\ dec.out.err = "ProtocolError" =>
              \E name \in {"x", "y"} :
                 /\ dec.out.missing = <<"missing required '", name, "'">>
                 /\ ~Has(dec.out.m, name)
        /\ (dec.mtype = "Sub" /\ AllGood /\ Whole) =>
              /\ dec.out.err = IF Encoded("y") = <<>> THEN "ProtocolError" ELSE "none"
              /\ HasLast(dec.out.m, "y")
              /\ HasLast(dec.out.m, "z")

\* The required y was not on the wire: the error names it and carries the
\* message with z.
C14_Witness ==
    /\ Decoded /\ Whole
    /\ dec.mtype = "Sub"
    /\ Len(dec.sent) = 2
    /\ dec.sent[1].name = "z4"
    /\ dec.sent[2].name = "uVar"
    /\ dec.out.err = "ProtocolError"
    /\ dec.out.missing = <<"missing required '", "y", "'">>
    /\ dec.out.m = [n \in {"z"} |-> IntVal(4)]

\* C15: the label of a field's case is fieldId*8 + wireType (its low three
\* bits are the wire type and the rest, divided by 8, the field id), it is
\* not negative, and it is the unsigned 32-bit number the decoder reads from
\* the wire for the field, for the field ids up to 2^29-1.
C15_CaseLabelIsTheWireTag ==
    tags.at = "read" =>
        /\ tags.label = tags.t
        /\ tags.label[3] >= 0
        /\ tags.label[1] % 8 = tags.wireType
        /\ (tags.label[1] \div 8) + tags.label[2] * 2048
              + tags.label[3] * 33554432 = tags.fieldId

\* The largest field id, 2^29-1, at wire type 5: five bytes on the wire.
C15_Witness ==
    /\ tags.at = "read"
    /\ tags.fieldId = 536870911
    /\ tags.wireType = 5
    /\ Len(tags.bytes) = 5
    /\ tags.t = tags.label

\* C16: a decoder called with a length l fails with Truncated when the
\* reading of a field has moved the cursor past r.pos + l, so that a message
\* is returned only with the cursor at r.pos + l.
C16_OvershootIsTruncated ==
    (Decoded /\ dec.limit # NoLimit) =>
        /\ dec.out.pos > dec.limit => dec.out.err = "Truncated"
        /\ dec.out.err = "none" => dec.out.pos = dec.limit

\* C17: when the length of a nested message, of a packed run or of a map
\* entry reaches beyond the end offset of the message around it, the call
\* fails with Truncated.
C17_InnerLengthBeyondOuterIsTruncated ==
    (Decoded /\ dec.out.beyond) => dec.out.err = "Truncated"

\* The entries of a map field of m, and the map that results from putting
\* the key and value encoded in each entry of the wire, in order.
EntriesOf(m, name) == IF Has(m, name) THEN m[name].entries ELSE EmptyEntries
RECURSIVE PutFrom(_, _, _, _)
PutFrom(sent, name, i, entries) ==
    IF i > Len(sent) THEN entries
    ELSE IF sent[i].field # name THEN PutFrom(sent, name, i + 1, entries)
    ELSE PutFrom(sent, name, i + 1,
                 [x \in DOMAIN entries \cup {sent[i].key} |->
                     IF x = sent[i].key THEN sent[i].val ELSE entries[x]])
Put(name) == PutFrom(dec.sent, name, 1, EmptyEntries)

\* C18: every map entry on the wire puts one key with its value into the
\* map: the last key and the last value read in the entry, the default of
\* the type for the one that is absent (the zero of the key type, null for a
\* message value), nothing of the entry before; a later entry with the same
\* key replaces the earlier one.
C18_OneInsertionPerEntry ==
    (Decoded /\ dec.mtype = "Maps" /\ AllGood /\ Whole) =>
        /\ dec.out.err = "none"
        /\ \A name \in {"mp", "mi", "ms"} : EntriesOf(dec.out.m, name) = Put(name)

\* C19: in a map entry the value is read from sub-field 2 at wire type 2
\* when it is a message, whether the key is a string (wire type 2) or a
\* number (wire type 0), and at the wire type of its own type when it is a
\* number; a message value's sub-field 2 at another wire type is skipped.
\* So the value of the last entry on the wire is found under its key.
C19_ValueTagFromValueType ==
    /\ \A i \in 1..Len(FieldsArray("Maps")) :
          ValueTag(FieldsArray("Maps")[i]) =
             Label(2, IF FieldsArray("Maps")[i].type = "Sub" THEN 2
                      ELSE Basic(FieldsArray("Maps")[i].type))
    /\ (Decoded /\ dec.mtype = "Maps" /\ AllGood /\ Whole /\ dec.sent # <<>>) =>
          LET last == dec.sent[Len(dec.sent)]
          IN  (last.field # "" /\ last.key # StrVal(<<ProtoText>>)) =>
                 /\ last.key \in DOMAIN EntriesOf(dec.out.m, last.field)
                 /\ EntriesOf(dec.out.m, last.field)[last.key] = last.val

\* A message value under a string key and another under a number key.
C19_Witness ==
    /\ Decoded /\ Whole
    /\ Len(dec.sent) = 2
    /\ dec.sent[1].name = "mpKV"
    /\ dec.sent[2].name = "msKV"
    /\ EntriesOf(dec.out.m, "mp") = [x \in {StrVal(<<5>>)} |-> SubOf(7)]
    /\ EntriesOf(dec.out.m, "ms") = [x \in {IntVal(1)} |-> SubOf(7)]

\* Where the decoders of the groups on the wire are to return: just after
\* the last cell of each group, at being the offset of piece i.
RECURSIVE GroupEndsFrom(_, _, _)
GroupEndsFrom(sent, i, at) ==
    IF i > Len(sent) THEN <<>>
    ELSE (IF sent[i].field = "g" THEN <<at + Len(sent[i].cells)>> ELSE <<>>)
         \o GroupEndsFrom(sent, i + 1, at + Len(sent[i].cells))

\* C20: the decoder of a group, called without a length after the start-group
\* tag, reads fields up to the end-group tag, consumes it and returns with
\* the cursor just after it; the parent goes on with the fields that follow,
\* and the group has the same value wherever its end-group tag comes (after
\* an unknown field in the group as well, and when a value in the group
\* is the number 4).
C20_GroupEndsAtItsEndTag ==
    (Decoded /\ dec.mtype = "M" /\ AllGood /\ Whole) =>
        /\ dec.out.err = "none"
        /\ dec.out.pos = Len(dec.wire)
        /\ dec.out.groupEnds = GroupEndsFrom(dec.sent, 1, 0)
        /\ \A i \in 1..Len(dec.out.groupEnds) :
              dec.wire[dec.out.groupEnds[i]] = Label(3, EGROUP_TYPE)
        /\ IF Encoded("g") = <<>> THEN ~Has(dec.out.m, "g")
           ELSE /\ Has(dec.out.m, "g")
                /\ dec.out.m["g"] = GroupOfX(Encoded("g")[Len(Encoded("g"))])
        /\ HasLast(dec.out.m, "a")
        /\ Has(dec.out.m, "sub") <=> Encoded("sub") # <<>>

\* A group with an unknown field before its own, then a field of the parent.
C20_Witness ==
    /\ Decoded /\ Whole
    /\ Len(dec.sent) = 2
    /\ dec.sent[1].name = "gLate"
    /\ dec.sent[2].name = "a5"
    /\ dec.out.groupEnds = <<6>>
    /\ dec.out.m = [n \in {"g", "a"} |->
                      IF n = "g" THEN GroupOfX(3) ELSE IntVal(5)]


\* C21: once the callback of a load has been invoked, doParseWork of that
\* load reserves no further slot (dispatches no further import) and parses
\* no further file into the root.
C21_NothingAfterCallback ==
    [][\A l \in Loads :
          (loads[l].callbackCalled /\ ~Idle /\ Top(ctl).op = "doParseWork"
                /\ Top(ctl).load = l) =>
             /\ Len(loads'[l].stack) <= Len(loads[l].stack)
             /\ ~obs'[l].parsedAfterCb]_vars


\* The files of the scenario in source order, depth first: a file, then
\* what it imports, in the order of the import statements, each file at the
\* first place it is named; up to the first file that fails, whose failure
\* is the outcome.
RECURSIVE SourceOrder(_, _, _, _)
SourceOrder(sc, todo, seen, acc) ==
    IF todo = <<>> THEN [parsed |-> acc, result |-> Success]
    ELSE LET f == Head(todo)
         IN  IF f \in seen THEN SourceOrder(sc, Tail(todo), seen, acc)
             ELSE IF f \in sc.fetchFails
             THEN [parsed |-> acc, result |-> FetchError(f)]
             ELSE IF f \in sc.parseFails
             THEN [parsed |-> Append(acc, f), result |-> ParseError(f)]
             ELSE SourceOrder(sc, sc.imports[f] \o Tail(todo), seen \cup {f},
                              Append(acc, f))
Expected == SourceOrder(order, order.initial, {}, <<>>)
IsPrefix(a, b) == Len(a) <= Len(b) /\ a = SubSeq(b, 1, Len(a))

\* C22: for files fixed in advance (what each imports, which fail) the
\* files a load parses, in order, and what its callback is handed do not
\* depend on when the fetches answer: the files are parsed in source order,
\* depth first, and the callback gets the first failure in that order, or
\* success when all are parsed.
C22_SameOrderWhateverCompletes ==
    order.fixed =>
        /\ IsPrefix(order.parsed, Expected.parsed)
        /\ obs[1].cbCount >= 1 =>
              /\ obs[1].cbResult = Expected.result
              /\ order.parsed = Expected.parsed


\* The fetches in flight of a load, and the slots of its stack they are to
\* fill.
InFlight(l) == {p \in pending : p.load = l}
Unfilled(l) == {i \in 1..Len(loads[l].stack) : loads[l].stack[i] = IMPORT_IN_FLIGHT}

\* C23: every fetch in flight has a slot of its own, which is inside the
\* stack and holds IMPORT_IN_FLIGHT, and every slot that holds
\* IMPORT_IN_FLIGHT is the slot of a fetch in flight; in no step is an
\* unfilled slot removed, nor is an entry at or below an unfilled slot
\* removed or changed, except that the completion of a slot's own fetch
\* fills it.
C23_SlotsKeptUntilFilled ==
    /\ [](\A l \in Loads :
             /\ \A p \in InFlight(l) : p.slot \in Unfilled(l)
             /\ \A p, q \in InFlight(l) : p.slot = q.slot => p = q
             /\ \A i \in Unfilled(l) : \E p \in InFlight(l) : p.slot = i)
    /\ [][\A l \in Loads : \A i \in Unfilled(l) :
             /\ Len(loads'[l].stack) >= i
             /\ \A k \in 1..i :
                   \/ loads'[l].stack[k] = loads[l].stack[k]
                   \/ /\ loads[l].stack[k] = IMPORT_IN_FLIGHT
                      /\ \E p \in InFlight(l) : p.slot = k /\ p \notin pending']_vars

\* A filled slot waits below a slot whose fetch is still in flight.
C23_Witness ==
    \E l \in Loads :
        /\ Idle
        /\ ~loads[l].callbackCalled
        /\ Len(loads[l].stack) = 2
        /\ IsWork(loads[l].stack[1])
        /\ loads[l].stack[2] = IMPORT_IN_FLIGHT
        /\ \E p \in InFlight(l) : p.slot = 2


\* How many times e is listed in root.deferred.
TimesDeferred(X, e) == Cardinality({i \in 1..Len(X.deferred) : X.deferred[i] = e})

\* C24: after any additions and removals every extension field under the
\* Root is either listed once in root.deferred, without a sister field and
\* with an extend that names nothing, or not listed and linked to its
\* sister field (each pointing at the other), which is a field of the type
\* its extend names.
C24_DeferredOrLinked ==
    \A e \in ExtFields :
        Attached(tree, e) =>
            LET t == Lookup(tree, Parent(tree, e), FieldOf(e).extend)
            IN  \/ /\ TimesDeferred(tree, e) = 1
                   /\ tree.extensionField[e] = NoField
                   /\ t = NoObject
                \/ /\ TimesDeferred(tree, e) = 0
                   /\ tree.extensionField[e] # NoField
                   /\ tree.extensionField[e].declaringField = e
                   /\ t # NoObject
                   /\ tree.extensionField[e] \in tree.fields[t]


\* C25: with two load calls on one Root that name the same file, no
\* callback is invoked twice, and when the callback of one of them is handed
\* (null, root) every file it requires that the other load names as well
\* has been parsed into the root.
C25_SharedFileParsedBeforeSuccess ==
    \A l \in Loads :
        /\ obs[l].cbCount <= 1
        /\ obs[l].cbResult = Success =>
              \A k \in Loads \ {l} : obs[l].cbMissing \cap obs[k].required = {}

====
